---- MODULE Spec2Model ----
(***************************************************************************)
(* Leader election of ceresmeta (server/member/member.go): members campaign *)
(* for one leader key of the coordination store with a conditional          *)
(* transaction, keep the leadership with a lease, look the leader up, and   *)
(* wait on a watch of the key for the leader to go.                         *)
(*                                                                          *)
(* The store (etcd) is modelled at its interface: one key, a store-wide     *)
(* revision, leases whose expiry deletes the key attached to them, the      *)
(* events of the key that a watch reports, and compaction.  A store call    *)
(* that returns an error is taken to have had no effect on the store.       *)
(***************************************************************************)
EXTENDS Integers, Sequences, FiniteSets, TLC

\* ---------------------------------------------------------------- bounds
MaxLease == 2       \* leases the store grants in a run (one per campaign)

\* The members of the cluster: the managers (1, "a") and (2, "b").
MemberIDs == {1, 2}
MemberNames == <<"a", "b">>
LeaseIDs == 1..MaxLease

\* ---------------------------------------------------------------- state
VARIABLES
    pc,               \* position of each member's CampaignAndKeepLeader call
    result,           \* what the call returned: the error, "nil", or "none"
    via,              \* the branch of the monitoring loop that returned
    leaseID,          \* newLease.ID of the member's current call (0: none)
    txnResp,          \* resp of the call's transaction (NoResp before it)
    closeErr,         \* closeErr of the call: "none", "nil" or "failed"
    callerCancelled,  \* the caller's ctx of each member is cancelled
    ctxDone,          \* calls (by lease ID) whose ctx of line 138 is done
    isLeader,         \* lease handles whose liveness flag is true
    keepAlive,        \* lease handles whose keep-alive task is running
    storeLeases,      \* leases alive in the store
    nextLease,        \* next lease ID the store grants
    kv,               \* the store's value at the leader key, or NoKV
    rev,              \* the store's revision
    etcdLeader,       \* what etcdLeaderGetter.GetLeader() reports
    glResp,           \* what the last GetLeader returned, and the revision of
                      \* the store it read (the header of the Get response)
    events,           \* the events of the leader key: events[r - 1] is the
                      \* event the store committed at revision r
    compactRev,       \* the store's compaction revision (0: never compacted)
    wpc,              \* position of the WaitForLeaderChange call
    wRevision,        \* its variable `revision`
    wNext,            \* revision of the next event the open watch delivers
    wCtxCancelled,    \* the ctx its caller passed is cancelled
    wClosed,          \* what watcher.Close() did: "none", "nil" or "failed"
    wVia,             \* the statement the call returned from
    wStart,           \* the revision the call was started with
    wResp             \* the last response the call took from the watch channel:
                      \* its CompactRevision, Canceled and the types of its Events

vars == <<pc, result, via, leaseID, txnResp, closeErr, callerCancelled, ctxDone,
          isLeader, keepAlive, storeLeases, nextLease, kv, rev, etcdLeader, glResp,
          events, compactRev, wpc, wRevision, wNext, wCtxCancelled, wClosed, wVia,
          wStart, wResp>>

campaignVars == <<pc, result, via, leaseID, txnResp, closeErr>>
leaseVars == <<isLeader, keepAlive>>
storeVars == <<storeLeases, nextLease, kv, rev, events, compactRev>>
watchVars == <<wpc, wRevision, wNext, wCtxCancelled, wClosed, wVia, wStart, wResp>>

NoKV == [absent |-> TRUE]
NoResp == [none |-> TRUE]
Nil == [nil |-> TRUE]

\* ---------------------------------------------------------------- member
\* Member{ID, Name} as NewMember builds it.
Member(id) == [ID |-> id, Name |-> MemberNames[id]]

\* Member.Marshal: the wire form of metapb.Member{Name, Id}, one field after
\* the other.
Marshal(m) == <<<<"name", m.Name>>, <<"id", m.ID>>>>

RECURSIVE FieldOf(_, _, _)
FieldOf(bs, field, default) ==
    IF bs = <<>> THEN default
    ELSE IF Head(bs)[1] = field THEN Head(bs)[2]
    ELSE FieldOf(Tail(bs), field, default)

\* proto.Unmarshal(leaderKv.Value, leader): a field not on the wire keeps its
\* zero value.
Unmarshal(bs) == [Id |-> FieldOf(bs, "id", 0), Name |-> FieldOf(bs, "name", "")]

\* ---------------------------------------------------------------- store
\* clientv3.CreateRevision(key): 0 for a key that does not exist.
CreateRevision(store) == IF store = NoKV THEN 0 ELSE store.CreateRevision

\* The comparison with ">=" for "=": true of every key.
LeaderKeyCmpGE(store) == CreateRevision(store) >= 0

\* The comparison with "!=" for "=": true of existing keys only.
LeaderKeyCmpNE(store) == CreateRevision(store) # 0

\* cmp of the campaign transaction.
LeaderKeyCmp(store) == CreateRevision(store) = 0

\* clusterKV.Get(ctx, m.leaderKey): resp.Kvs.
GetKvs(store) == IF store = NoKV THEN <<>> ELSE <<store>>

\* OpPut(m.leaderKey, leaderVal, WithLease(id)) committed at revision r: a put
\* on an existing key keeps its creation revision.
PutLeader(store, val, lease, r) ==
    [Value |-> val, Lease |-> lease, ModRevision |-> r,
     CreateRevision |-> IF store = NoKV THEN r ELSE store.CreateRevision]

Init ==
    /\ pc = [m \in MemberIDs |-> "idle"]
    /\ result = [m \in MemberIDs |-> "none"]
    /\ via = [m \in MemberIDs |-> "none"]
    /\ leaseID = [m \in MemberIDs |-> 0]
    /\ txnResp = [m \in MemberIDs |-> NoResp]
    /\ closeErr = [m \in MemberIDs |-> "none"]
    /\ callerCancelled = [m \in MemberIDs |-> FALSE]
    /\ ctxDone = {}
    /\ isLeader = {}
    /\ keepAlive = {}
    /\ storeLeases = {}
    /\ nextLease = 1
    /\ kv = NoKV
    /\ rev = 1
    /\ etcdLeader \in MemberIDs
    /\ glResp = NoResp
    /\ events = <<>>
    /\ compactRev = 0
    /\ wpc = "idle"
    /\ wRevision = 0
    /\ wNext = 0
    /\ wCtxCancelled = FALSE
    /\ wClosed = "none"
    /\ wVia = "none"
    /\ wStart = 0
    /\ wResp = NoResp

\* ------------------------------------------------- CampaignAndKeepLeader
\* Grant with its error dropped: the call goes on to the transaction.
GrantIgnoreErr(m) ==
    /\ pc[m] \in {"idle", "returned"}
    /\ ~callerCancelled[m]
    /\ via' = [via EXCEPT ![m] = "none"]
    /\ txnResp' = [txnResp EXCEPT ![m] = NoResp]
    /\ closeErr' = [closeErr EXCEPT ![m] = "none"]
    /\ result' = [result EXCEPT ![m] = "none"]
    /\ pc' = [pc EXCEPT ![m] = "granted"]
    /\ \/ /\ nextLease <= MaxLease
          /\ leaseID' = [leaseID EXCEPT ![m] = nextLease]
          /\ storeLeases' = storeLeases \cup {nextLease}
          /\ nextLease' = nextLease + 1
       \/ /\ leaseID' = [leaseID EXCEPT ![m] = 0]
          /\ UNCHANGED <<storeLeases, nextLease>>
    /\ UNCHANGED <<callerCancelled, ctxDone, leaseVars, kv, rev, events, compactRev,
                   etcdLeader, glResp, watchVars>>

\* Lines 128-139: marshal, newLease, Grant, and the ctx with the rpc timeout.
\* A grant that fails returns its error.
Grant(m) ==
    /\ pc[m] \in {"idle", "returned"}
    /\ ~callerCancelled[m]
    /\ via' = [via EXCEPT ![m] = "none"]
    /\ txnResp' = [txnResp EXCEPT ![m] = NoResp]
    /\ closeErr' = [closeErr EXCEPT ![m] = "none"]
    /\ \/ /\ nextLease <= MaxLease
          /\ leaseID' = [leaseID EXCEPT ![m] = nextLease]
          /\ storeLeases' = storeLeases \cup {nextLease}
          /\ nextLease' = nextLease + 1
          /\ pc' = [pc EXCEPT ![m] = "granted"]
          /\ result' = [result EXCEPT ![m] = "none"]
       \/ /\ leaseID' = [leaseID EXCEPT ![m] = 0]
          /\ pc' = [pc EXCEPT ![m] = "returned"]
          /\ result' = [result EXCEPT ![m] = "GrantErr"]
          /\ UNCHANGED <<storeLeases, nextLease>>
    /\ UNCHANGED <<callerCancelled, ctxDone, leaseVars, kv, rev, events, compactRev,
                   etcdLeader, glResp, watchVars>>

\* Lease.Close of the lease handle: revokes the lease in the store; a close
\* that fails leaves the lease to expire.
CloseLease(id, ok) == IF ok THEN storeLeases \ {id} ELSE storeLeases

\* The call returning without cancelling the ctx of line 138.
DeferCancelMissing(id) == ctxDone

\* What `defer cancel()` of line 139 does when the call returns.
DeferCancel(id) == ctxDone \cup {id}

\* The failure path returning the close error when the close fails.
TxnPutLeaderFailedCloseErr(m, resp, closeOk) ==
    /\ txnResp' = [txnResp EXCEPT ![m] = resp]
    /\ storeLeases' = CloseLease(leaseID[m], closeOk)
    /\ closeErr' = [closeErr EXCEPT ![m] = IF closeOk THEN "nil" ELSE "failed"]
    /\ ctxDone' = DeferCancel(leaseID[m])
    /\ pc' = [pc EXCEPT ![m] = "returned"]
    /\ result' = [result EXCEPT ![m] = IF closeOk THEN "TxnPutLeaderFailed" ELSE "CloseErr"]
    /\ UNCHANGED <<kv, rev, events, leaseVars>>

\* Lines 147-160: the transaction failed; close the lease, return
\* ErrTxnPutLeader whatever the close did.
TxnPutLeaderFailed(m, resp, closeOk) ==
    /\ txnResp' = [txnResp EXCEPT ![m] = resp]
    /\ storeLeases' = CloseLease(leaseID[m], closeOk)
    /\ closeErr' = [closeErr EXCEPT ![m] = IF closeOk THEN "nil" ELSE "failed"]
    /\ ctxDone' = DeferCancel(leaseID[m])
    /\ pc' = [pc EXCEPT ![m] = "returned"]
    /\ result' = [result EXCEPT ![m] = "TxnPutLeaderFailed"]
    /\ UNCHANGED <<kv, rev, events, leaseVars>>

\* Lines 162-169: the transaction succeeded; the lease handle is marked
\* leading and its keep-alive task started, and the call enters the loop.
TxnPutLeaderSucceeded(m, resp) ==
    /\ txnResp' = [txnResp EXCEPT ![m] = resp]
    /\ kv' = PutLeader(kv, Marshal(Member(m)), leaseID[m], rev + 1)
    /\ rev' = rev + 1
    /\ events' = Append(events, "PUT")
    /\ isLeader' = isLeader \cup {leaseID[m]}
    /\ keepAlive' = keepAlive \cup {leaseID[m]}
    /\ pc' = [pc EXCEPT ![m] = "leading"]
    /\ UNCHANGED <<storeLeases, closeErr, ctxDone, result>>

\* The campaign without the check of resp.Succeeded: a transaction whose
\* condition failed is followed by keep-alive and the monitoring loop.
TxnNoSucceededCheck(m) ==
    /\ pc[m] = "granted"
    /\ \E err \in BOOLEAN, closeOk \in BOOLEAN:
         /\ (leaseID[m] \in ctxDone \/ leaseID[m] \notin storeLeases) => err
         /\ IF err
            THEN TxnPutLeaderFailed(m, NoResp, closeOk)
            ELSE IF LeaderKeyCmp(kv)
            THEN /\ closeOk
                 /\ TxnPutLeaderSucceeded(m, [Succeeded |-> TRUE, Revision |-> rev + 1])
            ELSE /\ closeOk
                 /\ txnResp' = [txnResp EXCEPT ![m] = [Succeeded |-> FALSE, Revision |-> rev]]
                 /\ isLeader' = isLeader \cup {leaseID[m]}
                 /\ keepAlive' = keepAlive \cup {leaseID[m]}
                 /\ pc' = [pc EXCEPT ![m] = "leading"]
                 /\ UNCHANGED <<kv, rev, events, storeLeases, closeErr, ctxDone, result>>
    /\ UNCHANGED <<via, leaseID, callerCancelled, nextLease, compactRev, etcdLeader,
                   glResp, watchVars>>

\* The transaction letting a member overwrite a leader key that holds its own
\* value.
TxnRetakeOwnKey(m) ==
    /\ pc[m] = "granted"
    /\ \E err \in BOOLEAN, closeOk \in BOOLEAN:
         /\ (leaseID[m] \in ctxDone \/ leaseID[m] \notin storeLeases) => err
         /\ IF err
            THEN TxnPutLeaderFailed(m, NoResp, closeOk)
            ELSE IF LeaderKeyCmp(kv) \/ kv.Value = Marshal(Member(m))
            THEN /\ closeOk
                 /\ TxnPutLeaderSucceeded(m, [Succeeded |-> TRUE, Revision |-> rev + 1])
            ELSE TxnPutLeaderFailed(m, [Succeeded |-> FALSE, Revision |-> rev], closeOk)
    /\ UNCHANGED <<via, leaseID, callerCancelled, nextLease, compactRev, etcdLeader,
                   glResp, watchVars>>

\* Lines 140-169: the conditional transaction and what follows it.  The call
\* errors when its ctx is done or the lease to attach is no longer in the
\* store, and may error for any other reason.
Txn(m) ==
    /\ pc[m] = "granted"
    /\ \E err \in BOOLEAN, closeOk \in BOOLEAN:
         /\ (leaseID[m] \in ctxDone \/ leaseID[m] \notin storeLeases) => err
         /\ IF err
            THEN TxnPutLeaderFailed(m, NoResp, closeOk)
            ELSE IF LeaderKeyCmp(kv)
            THEN /\ closeOk
                 /\ TxnPutLeaderSucceeded(m, [Succeeded |-> TRUE, Revision |-> rev + 1])
            ELSE TxnPutLeaderFailed(m, [Succeeded |-> FALSE, Revision |-> rev], closeOk)
    /\ UNCHANGED <<via, leaseID, callerCancelled, nextLease, compactRev, etcdLeader,
                   glResp, watchVars>>

\* newLease.IsLeader() of the lease handle.
IsLeader(id) == id \in isLeader

\* Return nil from the monitoring loop through branch `how`.
ReturnNil(m, how) ==
    /\ pc' = [pc EXCEPT ![m] = "returned"]
    /\ result' = [result EXCEPT ![m] = "nil"]
    /\ via' = [via EXCEPT ![m] = how]
    /\ ctxDone' = DeferCancel(leaseID[m])

\* The tick without the check of the lease: only the store's leader is looked at.
LeaderCheckTickNoLeaseCheck(m) ==
    /\ pc[m] = "leading"
    /\ IF etcdLeader # Member(m).ID
       THEN ReturnNil(m, "etcdLeader")
       ELSE UNCHANGED <<pc, result, via, ctxDone>>
    /\ UNCHANGED <<leaseID, txnResp, closeErr, callerCancelled, leaseVars,
                   storeVars, etcdLeader, glResp, watchVars>>

\* The tick asking the store's leader first and the lease second.
LeaderCheckTickEtcdFirst(m) ==
    /\ pc[m] = "leading"
    /\ IF etcdLeader # Member(m).ID
       THEN ReturnNil(m, "etcdLeader")
       ELSE IF ~IsLeader(leaseID[m])
       THEN ReturnNil(m, "lease")
       ELSE UNCHANGED <<pc, result, via, ctxDone>>
    /\ UNCHANGED <<leaseID, txnResp, closeErr, callerCancelled, leaseVars,
                   storeVars, etcdLeader, glResp, watchVars>>

\* The tick reading the leader key as well: it returns when the key is not
\* the one the call wrote.
LeaderCheckTickReadsKey(m) ==
    /\ pc[m] = "leading"
    /\ IF ~IsLeader(leaseID[m])
       THEN ReturnNil(m, "lease")
       ELSE IF etcdLeader # Member(m).ID
       THEN ReturnNil(m, "etcdLeader")
       ELSE IF kv = NoKV \/ kv.Lease # leaseID[m]
       THEN ReturnNil(m, "lease")
       ELSE UNCHANGED <<pc, result, via, ctxDone>>
    /\ UNCHANGED <<leaseID, txnResp, closeErr, callerCancelled, leaseVars,
                   storeVars, etcdLeader, glResp, watchVars>>

\* Lines 173-182: a tick of leaderCheckTicker.
LeaderCheckTick(m) ==
    /\ pc[m] = "leading"
    /\ IF ~IsLeader(leaseID[m])
       THEN ReturnNil(m, "lease")
       ELSE IF etcdLeader # Member(m).ID
       THEN ReturnNil(m, "etcdLeader")
       ELSE UNCHANGED <<pc, result, via, ctxDone>>
    /\ UNCHANGED <<leaseID, txnResp, closeErr, callerCancelled, leaseVars,
                   storeVars, etcdLeader, glResp, watchVars>>

\* The ctx.Done() branch closing the lease before it returns: the store
\* revokes the lease and deletes the key attached to it.
CtxDoneRevoke(m) ==
    /\ pc[m] = "leading"
    /\ leaseID[m] \in ctxDone
    /\ ReturnNil(m, "ctxDone")
    /\ storeLeases' = storeLeases \ {leaseID[m]}
    /\ IF kv # NoKV /\ kv.Lease = leaseID[m]
       THEN kv' = NoKV /\ rev' = rev + 1 /\ events' = Append(events, "DELETE")
       ELSE UNCHANGED <<kv, rev, events>>
    /\ UNCHANGED <<leaseID, txnResp, closeErr, callerCancelled, leaseVars,
                   nextLease, compactRev, etcdLeader, glResp, watchVars>>

\* Lines 183-185: ctx.Done() of the ctx of line 138.
CtxDone(m) ==
    /\ pc[m] = "leading"
    /\ leaseID[m] \in ctxDone
    /\ ReturnNil(m, "ctxDone")
    /\ UNCHANGED <<leaseID, txnResp, closeErr, callerCancelled, leaseVars,
                   storeVars, etcdLeader, glResp, watchVars>>

\* Line 138: context.WithTimeout(ctx, m.rpcTimeout); the timeout elapses.
RpcTimeout(m) ==
    /\ pc[m] \in {"granted", "leading"}
    /\ leaseID[m] \notin ctxDone
    /\ ctxDone' = ctxDone \cup {leaseID[m]}
    /\ UNCHANGED <<campaignVars, callerCancelled, leaseVars, storeVars, etcdLeader,
                   glResp, watchVars>>

\* The caller cancels the ctx it passed to CampaignAndKeepLeader.
CancelCaller(m) ==
    /\ ~callerCancelled[m]
    /\ callerCancelled' = [callerCancelled EXCEPT ![m] = TRUE]
    /\ ctxDone' = IF pc[m] \in {"granted", "leading"}
                  THEN ctxDone \cup {leaseID[m]} ELSE ctxDone
    /\ UNCHANGED <<campaignVars, leaseVars, storeVars, etcdLeader, glResp, watchVars>>

\* ------------------------------------------------------------ lease handle
\* The keep-alive stream errors or ends: the liveness flag flips to false.
KeepAliveFail(id) ==
    /\ id \in keepAlive
    /\ keepAlive' = keepAlive \ {id}
    /\ isLeader' = isLeader \ {id}
    /\ UNCHANGED <<campaignVars, callerCancelled, ctxDone, storeVars, etcdLeader,
                   glResp, watchVars>>

\* The keep-alive task sees the ctx it was started with done, and stops.
KeepAliveCtxDone(id) ==
    /\ id \in keepAlive
    /\ id \in ctxDone
    /\ keepAlive' = keepAlive \ {id}
    /\ isLeader' = isLeader \ {id}
    /\ UNCHANGED <<campaignVars, callerCancelled, ctxDone, storeVars, etcdLeader,
                   glResp, watchVars>>

\* ------------------------------------------------------------------ store
\* A lease that gets no keep-alive expires; the store deletes the key
\* attached to it.
LeaseExpire(id) ==
    /\ id \in storeLeases
    /\ id \notin keepAlive
    /\ storeLeases' = storeLeases \ {id}
    /\ IF kv # NoKV /\ kv.Lease = id
       THEN kv' = NoKV /\ rev' = rev + 1 /\ events' = Append(events, "DELETE")
       ELSE UNCHANGED <<kv, rev, events>>
    /\ UNCHANGED <<campaignVars, callerCancelled, ctxDone, leaseVars, nextLease,
                   compactRev, etcdLeader, glResp, watchVars>>

\* The store's own leader moves to another node.
EtcdLeaderChange ==
    /\ \E id \in MemberIDs \ {etcdLeader}: etcdLeader' = id
    /\ UNCHANGED <<campaignVars, callerCancelled, ctxDone, leaseVars, storeVars, glResp,
                   watchVars>>

\* -------------------------------------------------------------- GetLeader
\* GetLeader returning leaderKv.Version, which is 1 for a key written once,
\* for leaderKv.ModRevision.
GetLeaderRespVersion(err, kvs) ==
    IF err THEN [err |-> "ErrGetLeader", Leader |-> Nil, Revision |-> 0]
    ELSE IF Len(kvs) > 1 THEN [err |-> "ErrMultipleLeader", Leader |-> Nil, Revision |-> 0]
    ELSE IF Len(kvs) = 0 THEN [err |-> "nil", Leader |-> Nil, Revision |-> 0]
    ELSE [err |-> "nil", Leader |-> Unmarshal(kvs[1].Value), Revision |-> 1]

\* Lines 57-72, given what clusterKV.Get returned.
GetLeaderResp(err, kvs) ==
    IF err THEN [err |-> "ErrGetLeader", Leader |-> Nil, Revision |-> 0]
    ELSE IF Len(kvs) > 1 THEN [err |-> "ErrMultipleLeader", Leader |-> Nil, Revision |-> 0]
    ELSE IF Len(kvs) = 0 THEN [err |-> "nil", Leader |-> Nil, Revision |-> 0]
    ELSE [err |-> "nil", Leader |-> Unmarshal(kvs[1].Value), Revision |-> kvs[1].ModRevision]

\* Lines 53-73.  Every member reads the same leader key.
GetLeader(m) ==
    /\ \E err \in BOOLEAN:
         glResp' = [out |-> GetLeaderResp(err, GetKvs(kv)),
                    header |-> IF err THEN 0 ELSE rev]
    /\ UNCHANGED <<campaignVars, callerCancelled, ctxDone, leaseVars, storeVars,
                   etcdLeader, watchVars>>

\* ------------------------------------------------------------ ResetLeader
\* ResetLeader deleting the key only when its value is the caller's own.
ResetLeaderOwnKeyOnly(m, err, store, r) ==
    IF err
    THEN [err |-> "ErrResetLeader", kv |-> store, rev |-> r]
    ELSE IF store = NoKV \/ store.Value # Marshal(Member(m))
         THEN [err |-> "nil", kv |-> store, rev |-> r]
         ELSE [err |-> "nil", kv |-> NoKV, rev |-> r + 1]

\* Lines 75-82: clusterKV.Delete(ctx, m.leaderKey); a delete of an absent key
\* deletes nothing and leaves the revision.  What ResetLeader called by member
\* m returns and what it leaves in the store, from the store it finds: `err`
\* is the failure of the Delete request.
ResetLeaderResult(m, err, store, r) ==
    IF err
    THEN [err |-> "ErrResetLeader", kv |-> store, rev |-> r]
    ELSE [err |-> "nil", kv |-> NoKV, rev |-> IF store = NoKV THEN r ELSE r + 1]

ResetLeader(m) ==
    /\ \E err \in BOOLEAN:
         LET res == ResetLeaderResult(m, err, kv, rev) IN
           /\ kv' = res.kv
           /\ rev' = res.rev
           /\ events' = IF res.rev = rev THEN events ELSE Append(events, "DELETE")
    /\ UNCHANGED <<campaignVars, callerCancelled, ctxDone, leaseVars, storeLeases,
                   nextLease, compactRev, etcdLeader, glResp, watchVars>>

\* ----------------------------------------------------- WaitForLeaderChange
\* The events of the leader key at revisions first..last, as a watch reports
\* them.
EventsFrom(first, last) ==
    [i \in 1..(last - first + 1) |->
        [Type |-> events[first + i - 2], ModRevision |-> first + i - 1]]

\* The watch responses the store sends: a batch of events, the notice that
\* the revision asked for is compacted, the cancellation of the watch.
EventsResp(first, last) ==
    [CompactRevision |-> 0, Canceled |-> FALSE, Events |-> EventsFrom(first, last)]

CompactedResp(c, canceled) ==
    [CompactRevision |-> c, Canceled |-> canceled, Events |-> <<>>]

CanceledResp == [CompactRevision |-> 0, Canceled |-> TRUE, Events |-> <<>>]

\* A return that closes the watcher on the delete branch only.
WaitReturnCloseOnDelete(how) ==
    /\ wpc' = "returned"
    /\ wVia' = how
    /\ IF how = "delete"
       THEN \E ok \in BOOLEAN: wClosed' = IF ok THEN "nil" ELSE "failed"
       ELSE UNCHANGED wClosed

\* Lines 85-92 at a return: the deferred watcher.Close(), whose error is
\* logged, and the deferred cancel.
WaitReturn(how) ==
    /\ wpc' = "returned"
    /\ wVia' = how
    /\ \E ok \in BOOLEAN: wClosed' = IF ok THEN "nil" ELSE "failed"

\* What is kept of a response for the record wResp.
Received(resp) ==
    [CompactRevision |-> resp.CompactRevision, Canceled |-> resp.Canceled,
     Types |-> {resp.Events[i].Type : i \in DOMAIN resp.Events}]

\* The body testing resp.Canceled before resp.CompactRevision.
RangeBodyCanceledFirst(resp) ==
    /\ wResp' = Received(resp)
    /\ IF resp.Canceled
       THEN WaitReturn("canceled") /\ UNCHANGED wRevision
       ELSE IF resp.CompactRevision # 0
       THEN /\ wRevision' = resp.CompactRevision
            /\ wpc' = "select"
            /\ UNCHANGED <<wClosed, wVia>>
       ELSE IF \E i \in DOMAIN resp.Events: resp.Events[i].Type = "DELETE"
       THEN WaitReturn("delete") /\ UNCHANGED wRevision
       ELSE UNCHANGED <<wpc, wRevision, wClosed, wVia>>

\* The body returning on any event, a PUT included.
RangeBodyAnyEvent(resp) ==
    /\ wResp' = Received(resp)
    /\ IF resp.CompactRevision # 0
       THEN /\ wRevision' = resp.CompactRevision
            /\ wpc' = "select"
            /\ UNCHANGED <<wClosed, wVia>>
       ELSE IF resp.Canceled
       THEN WaitReturn("canceled") /\ UNCHANGED wRevision
       ELSE IF resp.Events # <<>>
       THEN WaitReturn("delete") /\ UNCHANGED wRevision
       ELSE UNCHANGED <<wpc, wRevision, wClosed, wVia>>

\* Lines 97-116: the body of `for resp := range wch` on one response.
RangeBody(resp) ==
    /\ wResp' = Received(resp)
    /\ IF resp.CompactRevision # 0
       THEN /\ wRevision' = resp.CompactRevision
            /\ wpc' = "select"
            /\ UNCHANGED <<wClosed, wVia>>
       ELSE IF resp.Canceled
       THEN WaitReturn("canceled") /\ UNCHANGED wRevision
       ELSE IF \E i \in DOMAIN resp.Events: resp.Events[i].Type = "DELETE"
       THEN WaitReturn("delete") /\ UNCHANGED wRevision
       ELSE UNCHANGED <<wpc, wRevision, wClosed, wVia>>

\* Lines 84-95: the call up to the first watcher.Watch.  Its caller has read
\* the leader with GetLeader, found one, and passes the Revision it got.
WaitForLeaderChange ==
    /\ wpc = "idle"
    /\ LET resp == GetLeaderResp(FALSE, GetKvs(kv)) IN
         /\ resp.Leader # Nil
         /\ wStart' = resp.Revision
         /\ wRevision' = resp.Revision
         /\ wNext' = resp.Revision
    /\ wpc' = "recv"
    /\ UNCHANGED <<campaignVars, callerCancelled, ctxDone, leaseVars, storeVars,
                   etcdLeader, glResp, wCtxCancelled, wClosed, wVia, wResp>>

\* The watch delivers the events of revisions wNext..last in one response.
WatchEvents(last) ==
    /\ wpc = "recv"
    /\ wNext >= compactRev
    /\ last \in wNext..rev
    /\ RangeBody(EventsResp(wNext, last))
    /\ wNext' = last + 1
    /\ UNCHANGED <<campaignVars, callerCancelled, ctxDone, leaseVars, storeVars,
                   etcdLeader, glResp, wCtxCancelled, wStart>>

\* The revision the watch is to deliver next is compacted: the store answers
\* with its compaction revision, on a response that may be marked cancelled.
WatchCompacted(canceled) ==
    /\ wpc = "recv"
    /\ wNext < compactRev
    /\ RangeBody(CompactedResp(compactRev, canceled))
    /\ UNCHANGED <<campaignVars, callerCancelled, ctxDone, leaseVars, storeVars,
                   etcdLeader, glResp, wNext, wCtxCancelled, wStart>>

\* The store cancels the watch.
WatchCanceled ==
    /\ wpc = "recv"
    /\ RangeBody(CanceledResp)
    /\ UNCHANGED <<campaignVars, callerCancelled, ctxDone, leaseVars, storeVars,
                   etcdLeader, glResp, wNext, wCtxCancelled, wStart>>

\* The watch channel is closed while the ctx is not cancelled: the range
\* loop of line 96 ends.
WatchChanClosed ==
    /\ wpc = "recv"
    /\ ~wCtxCancelled
    /\ wpc' = "select"
    /\ UNCHANGED <<campaignVars, callerCancelled, ctxDone, leaseVars, storeVars,
                   etcdLeader, glResp, wRevision, wNext, wCtxCancelled, wClosed,
                   wVia, wStart, wResp>>

\* The watch channel is closed because the ctx the watch runs under is
\* cancelled.
WatchCtxDone ==
    /\ wpc = "recv"
    /\ wCtxCancelled
    /\ wpc' = "select"
    /\ UNCHANGED <<campaignVars, callerCancelled, ctxDone, leaseVars, storeVars,
                   etcdLeader, glResp, wRevision, wNext, wCtxCancelled, wClosed,
                   wVia, wStart, wResp>>

\* The call returning when the range loop ends, whatever the ctx.
SelectReturnsOnClose ==
    /\ wpc = "select"
    /\ IF wCtxCancelled \/ wResp = NoResp \/ wResp.CompactRevision = 0
       THEN WaitReturn("ctxDone") /\ UNCHANGED wNext
       ELSE wpc' = "recv" /\ wNext' = wRevision /\ UNCHANGED <<wClosed, wVia>>
    /\ UNCHANGED <<campaignVars, callerCancelled, ctxDone, leaseVars, storeVars,
                   etcdLeader, glResp, wRevision, wCtxCancelled, wStart, wResp>>

\* Lines 119-123 and, through `default`, line 95 again.
SelectCtxDone ==
    /\ wpc = "select"
    /\ IF wCtxCancelled
       THEN WaitReturn("ctxDone") /\ UNCHANGED wNext
       ELSE wpc' = "recv" /\ wNext' = wRevision /\ UNCHANGED <<wClosed, wVia>>
    /\ UNCHANGED <<campaignVars, callerCancelled, ctxDone, leaseVars, storeVars,
                   etcdLeader, glResp, wRevision, wCtxCancelled, wStart, wResp>>

\* The caller of WaitForLeaderChange cancels the ctx it passed.
CancelWait ==
    /\ wpc # "returned"
    /\ ~wCtxCancelled
    /\ wCtxCancelled' = TRUE
    /\ UNCHANGED <<campaignVars, callerCancelled, ctxDone, leaseVars, storeVars,
                   etcdLeader, glResp, wpc, wRevision, wNext, wClosed, wVia, wStart,
                   wResp>>

\* The store compacts its history up to revision c.
Compact ==
    /\ \E c \in (compactRev + 1)..rev: compactRev' = c
    /\ UNCHANGED <<campaignVars, callerCancelled, ctxDone, leaseVars, storeLeases,
                   nextLease, kv, rev, events, etcdLeader, glResp, watchVars>>

\* The steps of the campaigns, the lease handles and the store.
CampaignNext ==
    \/ \E m \in MemberIDs: Grant(m)
    \/ \E m \in MemberIDs: Txn(m)
    \/ \E m \in MemberIDs: LeaderCheckTick(m)
    \/ \E m \in MemberIDs: CtxDone(m)
    \/ \E m \in MemberIDs: RpcTimeout(m)
    \/ \E m \in MemberIDs: CancelCaller(m)
    \/ \E id \in LeaseIDs: KeepAliveFail(id)
    \/ \E id \in LeaseIDs: KeepAliveCtxDone(id)
    \/ \E id \in LeaseIDs: LeaseExpire(id)
    \/ EtcdLeaderChange
    \/ \E m \in MemberIDs: ResetLeader(m)

Next ==
    \/ CampaignNext
    \/ \E m \in MemberIDs: GetLeader(m)

Spec == Init /\ [][Next]_vars

\* The campaigns alone: GetLeader writes nothing but its own result, which no
\* other step reads.
CampaignSpec == Init /\ [][CampaignNext]_vars

\* The ticker fires, a done ctx is seen, a lease without keep-alive expires.
FairSpec ==
    /\ CampaignSpec
    /\ \A m \in MemberIDs: WF_vars(LeaderCheckTick(m)) /\ WF_vars(CtxDone(m))
    /\ \A id \in LeaseIDs: WF_vars(KeepAliveCtxDone(id)) /\ WF_vars(LeaseExpire(id))

\* The steps of WaitForLeaderChange, of the watch and of what writes the
\* leader key: the campaigns up to their transaction (PUT), ResetLeader
\* (DELETE) and compaction.  The steps of the monitoring loop write nothing a
\* watch sees, and the DELETE of an expired lease is to a watch the DELETE of
\* a ResetLeader.
WatchNext ==
    \/ \E m \in MemberIDs: Grant(m)
    \/ \E m \in MemberIDs: Txn(m)
    \/ \E m \in MemberIDs: ResetLeader(m)
    \/ Compact
    \/ WaitForLeaderChange
    \/ \E last \in 1..(2 * MaxLease + 1): WatchEvents(last)
    \/ \E canceled \in BOOLEAN: WatchCompacted(canceled)
    \/ WatchCanceled
    \/ WatchChanClosed
    \/ WatchCtxDone
    \/ SelectCtxDone
    \/ CancelWait

WatchSpec == Init /\ [][WatchNext]_vars

\* The store sends what it has for an open watch, a channel under a cancelled
\* ctx is closed, the call takes its next step.
WatchFairSpec ==
    /\ WatchSpec
    /\ SF_vars(WatchEvents(rev))
    /\ SF_vars(\E canceled \in BOOLEAN: WatchCompacted(canceled))
    /\ WF_vars(WatchCtxDone)
    /\ WF_vars(SelectCtxDone)

\* ================================================================= claims
\* A call is leading: past its successful transaction, its lease's liveness
\* flag true, not yet returned.
Leading(m) == pc[m] = "leading" /\ IsLeader(leaseID[m])

\* The call of m has had its transaction evaluated by the store since the
\* leader key now present was created.
TxnInEpoch(m) ==
    /\ kv # NoKV
    /\ txnResp[m] # NoResp
    /\ txnResp[m].Revision >= kv.CreateRevision

\* The call of m entered the monitoring loop.
EnteredLoop(m) == pc[m] = "leading" \/ (pc[m] = "returned" /\ via[m] # "none")

\* C1: at most one CampaignAndKeepLeader call is in the leading state at any
\* moment, whatever the interleaving of campaigns, lease expiry, keep-alive
\* failure and ResetLeader.
C1_MutualExclusion ==
    \A m1, m2 \in MemberIDs: Leading(m1) /\ Leading(m2) => m1 = m2

\* C2: of the calls whose transaction the store evaluated since the leader key
\* was created, the one that created it succeeded and entered the monitoring
\* loop; every other one got Succeeded = false, returned TxnPutLeaderFailed
\* and never started keep-alive or the loop.
C2_OneWinner ==
    \A m \in MemberIDs:
        TxnInEpoch(m) =>
            IF leaseID[m] = kv.Lease
            THEN txnResp[m].Succeeded /\ EnteredLoop(m)
            ELSE /\ ~txnResp[m].Succeeded
                 /\ pc[m] = "returned"
                 /\ result[m] = "TxnPutLeaderFailed"
                 /\ ~EnteredLoop(m)
                 /\ leaseID[m] \notin keepAlive \cup isLeader

\* Two members raced for the key of a fresh store: one leads, the other lost.
C2_Witness ==
    \E m1, m2 \in MemberIDs:
        /\ m1 # m2
        /\ kv # NoKV /\ kv.CreateRevision = 2
        /\ Leading(m1) /\ kv.Lease = leaseID[m1]
        /\ TxnInEpoch(m2) /\ result[m2] = "TxnPutLeaderFailed"

\* C3: a value stored at the leader key stays as it is until the key is
\* deleted, and the key is written only by a campaign transaction that found
\* it absent (creation revision 0), with that member's record.
C3_NeverOverwritten ==
    [][/\ (kv # NoKV /\ kv' # NoKV => kv' = kv)
       /\ (kv = NoKV /\ kv' # NoKV =>
              /\ CreateRevision(kv) = 0
              /\ kv'.CreateRevision = rev' /\ kv'.ModRevision = rev'
              /\ \E m \in MemberIDs:
                    /\ pc[m] = "granted" /\ pc'[m] = "leading"
                    /\ kv'.Value = Marshal(Member(m))
                    /\ kv'.Lease = leaseID[m])]_vars

\* A campaign transaction ran against the key another member holds, and the
\* key is that member's still.
C3_Witness ==
    \E m1, m2 \in MemberIDs:
        /\ m1 # m2
        /\ kv # NoKV /\ kv.Value = Marshal(Member(m1))
        /\ txnResp[m2] # NoResp /\ ~txnResp[m2].Succeeded
        /\ txnResp[m2].Revision = kv.ModRevision

\* C4: a call that has entered the monitoring loop returns only when its
\* lease's liveness flag is false, or the store's leader is not the member,
\* or the caller's context is cancelled; the rpc timeout is no cause.
C4_ReturnsOnlyOnLossOrCancel ==
    [][\A m \in MemberIDs:
          pc[m] = "leading" /\ pc'[m] = "returned" =>
              \/ ~IsLeader(leaseID[m])
              \/ etcdLeader # Member(m).ID
              \/ callerCancelled[m]]_vars

\* C5: the liveness flag is true only while the keep-alive runs; once it is
\* false the monitoring loop returns, and returns nil.
C5_KeepAliveStopReturnsNil ==
    /\ [](isLeader \subseteq keepAlive)
    /\ \A m \in MemberIDs:
          (pc[m] = "leading" /\ ~IsLeader(leaseID[m]))
              ~> (pc[m] = "returned" /\ result[m] = "nil")
    /\ [][\A m \in MemberIDs:
             pc[m] = "leading" /\ ~IsLeader(leaseID[m]) /\ pc'[m] # "leading" =>
                 pc'[m] = "returned" /\ result'[m] = "nil"]_vars

\* The keep-alive of a leading member stopped with nothing else amiss, and the
\* tick returned nil.
C5_Witness ==
    \E m \in MemberIDs:
        /\ pc[m] = "returned" /\ via[m] = "lease" /\ result[m] = "nil"
        /\ ~callerCancelled[m] /\ etcdLeader = Member(m).ID

\* C6: the return through ctx.Done() is nil and leaves the store as it is: no
\* lease is revoked, the leader key and the revision stay.
C6_CancelLeavesKey ==
    [][\A m \in MemberIDs:
          pc[m] = "leading" /\ pc'[m] = "returned" /\ via'[m] = "ctxDone" =>
              /\ result'[m] = "nil"
              /\ kv' = kv /\ rev' = rev /\ storeLeases' = storeLeases]_vars

\* The caller cancelled a leading member: the call has returned, the key and
\* its lease are still in the store.
C6_Witness ==
    \E m \in MemberIDs:
        /\ pc[m] = "returned" /\ via[m] = "ctxDone" /\ callerCancelled[m]
        /\ kv # NoKV /\ kv.Lease = leaseID[m] /\ kv.Value = Marshal(Member(m))
        /\ leaseID[m] \in storeLeases

\* C7: a leader key whose lease is no longer kept alive is eventually
\* deleted, and a campaign transaction the store evaluates against an absent
\* key succeeds and writes the key.
C7_SelfHealing ==
    /\ \A id \in LeaseIDs:
          (kv # NoKV /\ kv.Lease = id /\ id \notin keepAlive)
              ~> (kv = NoKV \/ kv.Lease # id)
    /\ [][\A m \in MemberIDs:
             pc[m] = "granted" /\ txnResp'[m] # NoResp /\ kv = NoKV =>
                 /\ txnResp'[m].Succeeded
                 /\ pc'[m] = "leading"
                 /\ kv' # NoKV /\ kv'.Lease = leaseID[m]]_vars

\* A leader stopped keeping its lease alive, the lease expired, and another
\* member's later campaign took the key.
C7_Witness ==
    \E m1, m2 \in MemberIDs:
        /\ m1 # m2
        /\ leaseID[m1] # 0 /\ leaseID[m1] < leaseID[m2]
        /\ EnteredLoop(m1) /\ leaseID[m1] \notin storeLeases
        /\ Leading(m2) /\ kv # NoKV /\ kv.Lease = leaseID[m2]
        /\ kv.CreateRevision = 4

\* C8: a call whose transaction errored or did not succeed has attempted the
\* close of its lease, returned TxnPutLeaderFailed whatever the close did,
\* left the leader key as it was, and started neither keep-alive nor loop.
C8_TxnFailure ==
    /\ [](\A m \in MemberIDs:
            (/\ pc[m] = "returned" /\ leaseID[m] # 0
             /\ (txnResp[m] = NoResp \/ ~txnResp[m].Succeeded)) =>
                /\ closeErr[m] \in {"nil", "failed"}
                /\ result[m] = "TxnPutLeaderFailed"
                /\ ~EnteredLoop(m)
                /\ leaseID[m] \notin keepAlive \cup isLeader)
    /\ [][\A m \in MemberIDs:
             pc[m] = "granted" /\ pc'[m] # "granted" /\ pc'[m] # "leading" =>
                 /\ pc'[m] = "returned"
                 /\ result'[m] = "TxnPutLeaderFailed"
                 /\ closeErr'[m] # "none"
                 /\ kv' = kv /\ rev' = rev]_vars

\* A member lost the transaction against a present key, and the close of its
\* lease failed.
C8_Witness ==
    \E m \in MemberIDs:
        /\ pc[m] = "returned" /\ result[m] = "TxnPutLeaderFailed"
        /\ closeErr[m] = "failed" /\ leaseID[m] \in storeLeases
        /\ txnResp[m] # NoResp /\ ~txnResp[m].Succeeded
        /\ kv # NoKV /\ kv.Lease # leaseID[m]

\* C9: a call whose grant fails returns the grant error, runs no transaction
\* and leaves the leader key and the revision as they were.
C9_GrantFailure ==
    /\ [](\A m \in MemberIDs:
            leaseID[m] = 0 => pc[m] \in {"idle", "returned"} /\ txnResp[m] = NoResp)
    /\ [][\A m \in MemberIDs:
             (/\ pc[m] \in {"idle", "returned"}
              /\ leaseID'[m] = 0
              /\ <<pc[m], result[m], leaseID[m]>>' # <<pc[m], result[m], leaseID[m]>>) =>
                 /\ pc'[m] = "returned"
                 /\ result'[m] = "GrantErr"
                 /\ kv' = kv /\ rev' = rev /\ storeLeases' = storeLeases]_vars

\* A member's second campaign failed at the grant while the key was present.
C9_Witness ==
    \E m \in MemberIDs:
        /\ pc[m] = "returned" /\ result[m] = "GrantErr" /\ leaseID[m] = 0
        /\ kv # NoKV /\ kv.Value = Marshal(Member(m))

\* The identity GetLeader hands back for member m.
LeaderOf(m) == [Id |-> Member(m).ID, Name |-> Member(m).Name]

\* C10: a GetLeader that returned without a store error, as long as the store
\* is at the revision it read, gave no error; its result is empty exactly
\* when the leader key is absent; when the key is present it is the identity
\* of the member whose transaction wrote the key, with a revision no less
\* than that transaction's commit revision.
C10_GetLeader ==
    (glResp # NoResp /\ glResp.header = rev) =>
        /\ glResp.out.err = "nil"
        /\ (glResp.out.Leader = Nil) <=> (kv = NoKV)
        /\ kv = NoKV => glResp.out.Revision = 0
        /\ \A m \in MemberIDs:
              (/\ kv # NoKV /\ kv.Lease = leaseID[m]
               /\ txnResp[m] # NoResp /\ txnResp[m].Succeeded) =>
                  /\ glResp.out.Leader = LeaderOf(m)
                  /\ glResp.out.Revision >= txnResp[m].Revision

\* GetLeader returned the winner while the loser of the race was back from
\* its call.
C10_Witness ==
    \E m1, m2 \in MemberIDs:
        /\ m1 # m2
        /\ glResp # NoResp /\ glResp.header = rev
        /\ glResp.out.Leader = LeaderOf(m1) /\ glResp.out.Revision = rev
        /\ Leading(m1)
        /\ result[m2] = "TxnPutLeaderFailed"

\* C11: in every reachable store, whoever wrote the leader key and whether it
\* is present or absent, a ResetLeader whose Delete request does not fail
\* returns nil and leaves the key absent, so that a GetLeader reading the
\* store it left returns no leader; a second ResetLeader right after it
\* returns nil again and leaves the store as the first one left it.
C11_ResetLeader ==
    \A m \in MemberIDs:
        LET first  == ResetLeaderResult(m, FALSE, kv, rev)
            second == ResetLeaderResult(m, FALSE, first.kv, first.rev)
        IN  /\ first.err = "nil"
            /\ first.kv = NoKV
            /\ first.rev = IF kv = NoKV THEN rev ELSE rev + 1
            /\ GetLeaderResp(FALSE, GetKvs(first.kv)) =
                   [err |-> "nil", Leader |-> Nil, Revision |-> 0]
            /\ second = first

\* A ResetLeader has deleted the key of a member that is still leading, with
\* the key's lease still granted in the store.
C11_Witness ==
    \E m \in MemberIDs:
        /\ Leading(m)
        /\ leaseID[m] \in storeLeases
        /\ txnResp[m] # NoResp /\ txnResp[m].Succeeded
        /\ rev = txnResp[m].Revision + 1
        /\ kv = NoKV
        /\ events[rev - 1] = "DELETE"

\* C16: a tick that makes the call return does so with nil and leaves the
\* leader key, the revision and the leases of the store as they were; it
\* returns through the lease check exactly when the liveness flag is false,
\* whatever the store's leader is, and through the store-leader check exactly
\* when the flag is true and the store's leader is not the member.
C16_EtcdLeaderMoved ==
    [][\A m \in MemberIDs:
          (pc[m] = "leading" /\ pc'[m] = "returned"
              /\ via'[m] \in {"lease", "etcdLeader"}) =>
              /\ result'[m] = "nil"
              /\ kv' = kv /\ rev' = rev /\ storeLeases' = storeLeases
              /\ (via'[m] = "lease") <=> ~IsLeader(leaseID[m])
              /\ (via'[m] = "etcdLeader") <=>
                    (IsLeader(leaseID[m]) /\ etcdLeader # Member(m).ID)]_vars

\* A call returned at the store-leader check with its flag still true, its
\* lease still granted and its key still in the store.
C16_Witness ==
    \E m \in MemberIDs:
        /\ pc[m] = "returned" /\ via[m] = "etcdLeader" /\ result[m] = "nil"
        /\ IsLeader(leaseID[m])
        /\ leaseID[m] \in storeLeases
        /\ kv # NoKV /\ kv.Lease = leaseID[m]

\* C17: the monitoring loop does not look at the leader key.  A step that
\* removes the key leaves every call that is in its loop in the loop, and a
\* call leaves the loop only when its flag is false, the store's leader is
\* not the member, or its ctx is done, never because its key is gone; so a
\* call can stay in the loop while another member's campaign succeeds (the
\* state C17_Witness).
C17_LoopIgnoresKey ==
    [][\A m \in MemberIDs:
          /\ (pc[m] = "leading" /\ kv # NoKV /\ kv' = NoKV) => pc'[m] = "leading"
          /\ (pc[m] = "leading" /\ pc'[m] = "returned") =>
                \/ ~IsLeader(leaseID[m])
                \/ etcdLeader # Member(m).ID
                \/ leaseID[m] \in ctxDone]_vars

\* Member m1 is in its loop with its flag true, its lease granted and kept
\* alive and the store's leader equal to its ID, while the key was deleted
\* and member m2's campaign succeeded: the key in the store is m2's.
C17_Witness ==
    \E m1, m2 \in MemberIDs:
        /\ m1 # m2
        /\ Leading(m1)
        /\ leaseID[m1] \in storeLeases /\ leaseID[m1] \in keepAlive
        /\ leaseID[m1] \notin ctxDone
        /\ etcdLeader = Member(m1).ID
        /\ Leading(m2)
        /\ txnResp[m2] # NoResp /\ txnResp[m2].Succeeded
        /\ kv # NoKV /\ kv.Lease = leaseID[m2] /\ kv.Value = Marshal(Member(m2))
        /\ events = <<"PUT", "DELETE", "PUT">>

\* The keep-alive of lease id has stopped and the store has let the lease
\* expire, the key attached to it with it.
Expired(id) ==
    /\ id \notin keepAlive
    /\ id \notin storeLeases
    /\ (kv = NoKV \/ kv.Lease # id)

\* C18: when a call has returned, the ctx its keep-alive was started under is
\* done; under a done ctx a keep-alive that has stopped is not started again
\* and a lease that has expired stays expired; and every run reaches a point
\* from which each lease whose ctx is done, so the lease of each call that
\* has returned, has no keep-alive and has expired in the store.
C18_KeepAliveEndsWithCall ==
    /\ [](\A m \in MemberIDs:
            (pc[m] = "returned" /\ leaseID[m] # 0) => leaseID[m] \in ctxDone)
    /\ [][\A id \in LeaseIDs:
            /\ id \in ctxDone => id \in ctxDone'
            /\ (id \in ctxDone /\ id \notin keepAlive) => id \notin keepAlive'
            /\ (id \in ctxDone /\ Expired(id)) => Expired(id)']_vars
    /\ <>[](\A id \in LeaseIDs: id \in ctxDone => Expired(id))

\* A call left its loop at the store-leader check; the keep-alive it had
\* started has stopped and its lease has expired, taking the key with it.
C18_Witness ==
    \E m \in MemberIDs:
        /\ pc[m] = "returned" /\ via[m] = "etcdLeader"
        /\ txnResp[m] # NoResp /\ txnResp[m].Succeeded
        /\ leaseID[m] \in ctxDone
        /\ leaseID[m] \notin keepAlive
        /\ leaseID[m] \notin storeLeases
        /\ kv = NoKV /\ rev = txnResp[m].Revision + 1

\* The leader key written by member m is in the store and the call that
\* wrote it is no longer in its loop.
KeyOutlivesCall(m) ==
    /\ kv # NoKV
    /\ kv.Value = Marshal(Member(m))
    /\ \A m2 \in MemberIDs: ~(pc[m2] = "leading" /\ leaseID[m2] = kv.Lease)

\* C19: while the key of a call that has left its loop is still in the
\* store, a GetLeader reading the store returns the identity of the member
\* that wrote it; the key changes only by being deleted, its lease expiring
\* or a ResetLeader deleting it; and every transaction of a campaign, the
\* former leader's included, fails with TxnPutLeaderFailed and leaves the key.
C19_StaleKeyBlocksCampaigns ==
    [][\A m \in MemberIDs:
          KeyOutlivesCall(m) =>
              /\ GetLeaderResp(FALSE, GetKvs(kv)) =
                     [err |-> "nil", Leader |-> LeaderOf(m), Revision |-> kv.ModRevision]
              /\ kv' # kv =>
                     /\ kv' = NoKV
                     /\ kv.Lease \in storeLeases' => storeLeases' = storeLeases
              /\ \A m2 \in MemberIDs:
                     (pc[m2] = "granted" /\ pc'[m2] # "granted") =>
                         /\ pc'[m2] = "returned"
                         /\ result'[m2] = "TxnPutLeaderFailed"
                         /\ kv' = kv]_vars

\* The former leader left its loop, campaigned again while its key and the key's lease were still in the store, and its
\* transaction was evaluated and failed.
C19_Witness ==
    \E m \in MemberIDs:
        /\ KeyOutlivesCall(m)
        /\ kv.Lease \in storeLeases
        /\ kv.Lease # leaseID[m]
        /\ pc[m] = "returned" /\ result[m] = "TxnPutLeaderFailed"
        /\ txnResp[m] # NoResp /\ ~txnResp[m].Succeeded
        /\ txnResp[m].Revision = kv.ModRevision

\* The WaitForLeaderChange call is running.
Waiting == wpc \in {"recv", "select"}

\* C12: a response with a non-zero compaction revision, marked cancelled or
\* not, does not make the call return: the call takes the compaction revision
\* as its revision and goes on to the ctx check of line 119, and the watch it
\* opens next starts at that revision.  A call that is still running has not
\* received a delete event; it returns through the delete branch only on a
\* response that holds one, of a revision no less than the one it watches
\* from; and once returned it stays returned.
C12_CompactionRestartsWatch ==
    [][/\ (wpc = "recv" /\ wpc' # "recv" /\ wResp' # NoResp
            /\ wResp'.CompactRevision # 0) =>
              /\ wpc' = "select"
              /\ wRevision' = wResp'.CompactRevision
              /\ wVia' = "none" /\ wClosed' = "none"
       /\ (wpc = "select" /\ wpc' = "recv") => wNext' = wRevision
       /\ (Waiting' /\ wResp' # NoResp) => "DELETE" \notin wResp'.Types
       /\ (Waiting /\ wpc' = "returned" /\ wVia' = "delete") =>
              /\ "DELETE" \in wResp'.Types
              /\ \E r \in wRevision..rev: events[r - 1] = "DELETE"
       /\ wpc = "returned" => (wpc' = "returned" /\ wVia' = wVia)]_vars

\* The call took a compaction response marked cancelled, went on, and has
\* opened a watch at the compaction revision, past the revision it was
\* started with; a delete event is there for that watch to deliver.
C12_Witness ==
    /\ wpc = "recv"
    /\ wResp # NoResp /\ wResp.Canceled /\ wResp.CompactRevision = wRevision
    /\ wRevision > wStart
    /\ wNext = wRevision
    /\ \E r \in wRevision..rev: events[r - 1] = "DELETE"

C14_ReturnsOnlyOnDeleteCancelOrCtx ==
    [][(Waiting /\ wpc' = "returned") =>
          \/ /\ wpc = "recv" /\ wVia' = "delete"
             /\ wResp'.CompactRevision = 0 /\ ~wResp'.Canceled
             /\ "DELETE" \in wResp'.Types
          \/ /\ wpc = "recv" /\ wVia' = "canceled"
             /\ wResp'.CompactRevision = 0 /\ wResp'.Canceled
          \/ /\ wpc = "select" /\ wVia' = "ctxDone"
             /\ wCtxCancelled /\ wResp' = wResp]_vars

\* The call has taken a response holding only the put event of the key it
\* was started for and is still running, its ctx not cancelled.
C14_Witness ==
    /\ wpc = "recv"
    /\ ~wCtxCancelled
    /\ wResp # NoResp /\ wResp.Types = {"PUT"}
    /\ wRevision = wStart
    /\ wNext = wStart + 1

\* C15: a running call whose caller's ctx is cancelled eventually returns;
\* whichever statement it returns from, watcher.Close() has been called by
\* then; and a Close that failed changes nothing of what the call gives back:
\* it returns through one of its three return statements all the same.
C15_CancelTerminates ==
    /\ (Waiting /\ wCtxCancelled) ~> (wpc = "returned")
    /\ [](wpc = "returned" <=> wClosed # "none")
    /\ [](wpc = "returned" => wVia \in {"delete", "canceled", "ctxDone"})

\* The call returned at the ctx check after its caller cancelled, and its
\* watcher.Close() failed.
C15_Witness ==
    /\ wpc = "returned"
    /\ wVia = "ctxDone"
    /\ wCtxCancelled
    /\ wClosed = "failed"

\* C20: when the range loop ends because the watch channel was closed, with
\* no response taken in that step, the call keeps its revision and has not
\* returned; at the ctx check, with its ctx not cancelled, it does not return
\* either: it opens a watch at the same revision again and keeps nothing that
\* counts the closures, so the same can happen again without end.
C20_ClosedChannelRewatches ==
    [][/\ (wpc = "recv" /\ wpc' = "select" /\ wResp' = wResp) =>
              UNCHANGED <<wRevision, wVia, wClosed>>
       /\ (wpc = "select" /\ ~wCtxCancelled /\ wpc' # "select") =>
              /\ wpc' = "recv"
              /\ wNext' = wRevision
              /\ UNCHANGED <<wRevision, wVia, wClosed, wStart, wResp>>]_vars

\* The call took the put event of its revision, the channel was closed with
\* the ctx not cancelled, and the call has opened a watch at the revision it
\* was started with again.
C20_Witness ==
    /\ wpc = "recv"
    /\ ~wCtxCancelled
    /\ wResp # NoResp /\ wResp.Types = {"PUT"}
    /\ wRevision = wStart
    /\ wNext = wRevision

====
